---- MODULE Spec2Model ----
(***************************************************************************)
(* Model of the travel-planner backend (src/backend/main.go): the HTTP     *)
(* server of main, the handler handleRoute, the upstream client            *)
(* callOpenRouter and the brace-slicing clean-up of the model's reply.     *)
(*                                                                         *)
(* Texts are sequences of tokens.  A token is a brace, a bracket, a piece  *)
(* of prose, a code fence, a language tag, white space, or one JSON member *)
(* ("key:value", the quotes, colons and commas folded into the token).     *)
(* One request is followed from arrival to response; requests share no     *)
(* state in the code (handleRoute only uses locals), so the next request   *)
(* starts from the initial state again.                                    *)
(***************************************************************************)
EXTENDS Integers, Sequences, FiniteSets, TLC

VARIABLES pc, req, reqData, call, upstreamCalls, upstream, upstreamStream,
          aiResponseContent, cleanedJSON, resp, logged,
          fpc, loading, error, reply, geo, res

\* the state of the page (src/frontend/frontend/src/App.vue): the refs
\* loading, error and reply (null is "" for error), the position of getRoute
\* (fpc), and what the last submission saw: the geocoding result (geo) and
\* the response of its fetch (res)
ui == <<fpc, loading, error, reply, geo, res>>

vars == <<pc, req, reqData, call, upstreamCalls, upstream, upstreamStream,
          aiResponseContent, cleanedJSON, resp, logged,
          fpc, loading, error, reply, geo, res>>

(***************************************************************************)
(* Bounds of the model.                                                    *)
(***************************************************************************)
\* longest days array of a generated itinerary
MaxDays == 2
\* longest free token text (braces and prose) the upstream model replies with
MaxRawLen == 3
\* most 'data:' lines a streaming upstream stub emits
MaxLines == 3

(***************************************************************************)
(* Program constants: the net/http status codes the code answers with.     *)
(***************************************************************************)
StatusOK == 200
StatusBadRequest == 400
StatusNotFound == 404
StatusMethodNotAllowed == 405
StatusInternalServerError == 500

(***************************************************************************)
(* Tokens.                                                                 *)
(***************************************************************************)
LBrace == "{"
RBrace == "}"
LBracket == "["
RBracket == "]"
Prose == "prose"
\* the triple-backtick code fence
Fence == "fence"
Tag == "json"
WS == "ws"

\* the %d rendering of a status code, as callOpenRouter prints it into its error
StatusText(s) ==
    CASE s = 200 -> "200"
      [] s = 429 -> "429"
      [] s = 500 -> "500"
      [] OTHER -> "other"

(***************************************************************************)
(* strings.Index and strings.LastIndex, on 1-based token positions; the    *)
(* code's -1 is kept as -1.                                                *)
(***************************************************************************)
Index(s, ch) ==
    IF \E i \in 1..Len(s) : s[i] = ch
    THEN CHOOSE i \in 1..Len(s) : s[i] = ch /\ \A j \in 1..(i - 1) : s[j] # ch
    ELSE -1

\* a LastIndex that stops at the first match
LastIndexFirstMatch(s, ch) == Index(s, ch)

LastIndex(s, ch) ==
    IF \E i \in 1..Len(s) : s[i] = ch
    THEN CHOOSE i \in 1..Len(s) : s[i] = ch /\ \A j \in (i + 1)..Len(s) : s[j] # ch
    ELSE -1

(***************************************************************************)
(* The structs of the API contract and their zero values.                  *)
(***************************************************************************)
TravelPlanRequest == [Source |-> "", Destination |-> "", Budget |-> 0]

DayPlan == [Day |-> 0, Activities |-> "", Expenses |-> {}]

TravelPlanResponse == [Source |-> "", Destination |-> "", Budget |-> 0, Days |-> <<>>]

(***************************************************************************)
(* json.Unmarshal of a token text into a TravelPlanResponse: a scanner     *)
(* over the tokens.  Syntax errors (anything that is not one JSON object,  *)
(* trailing data included) and type errors (a value whose JSON type does   *)
(* not fit the struct field) both end in an error; unknown keys are        *)
(* skipped, absent keys leave the zero value, a repeated key overwrites.   *)
(***************************************************************************)
DecodeStart == [st |-> "start", plan |-> TravelPlanResponse, cur |-> DayPlan,
                typeErr |-> FALSE]

DecodeStep(d, t) ==
    IF t = WS /\ d.st # "err" THEN d
    ELSE CASE d.st = "start" ->
                IF t = LBrace THEN [d EXCEPT !.st = "top"] ELSE [d EXCEPT !.st = "err"]
           [] d.st = "top" ->
                CASE t = "source:Delhi" -> [d EXCEPT !.plan.Source = "Delhi"]
                  [] t = "source:7" -> [d EXCEPT !.typeErr = TRUE]
                  [] t = "destination:Goa" -> [d EXCEPT !.plan.Destination = "Goa"]
                  [] t = "budget:20000" -> [d EXCEPT !.plan.Budget = 20000]
                  [] t = "budget:text" -> [d EXCEPT !.typeErr = TRUE]
                  [] t = "note:text" -> d
                  [] t = "days:" -> [d EXCEPT !.st = "daysKey"]
                  [] t = RBrace -> [d EXCEPT !.st = "end"]
                  [] OTHER -> [d EXCEPT !.st = "err"]
           [] d.st = "daysKey" ->
                CASE t = LBracket -> [d EXCEPT !.st = "days", !.plan.Days = <<>>]
                  [] t = "text" -> [d EXCEPT !.st = "top", !.typeErr = TRUE]
                  [] OTHER -> [d EXCEPT !.st = "err"]
           [] d.st = "days" ->
                CASE t = LBrace -> [d EXCEPT !.st = "day", !.cur = DayPlan]
                  [] t = RBracket -> [d EXCEPT !.st = "top"]
                  [] OTHER -> [d EXCEPT !.st = "err"]
           [] d.st = "day" ->
                CASE t = "day:1" -> [d EXCEPT !.cur.Day = 1]
                  [] t = "day:2" -> [d EXCEPT !.cur.Day = 2]
                  [] t = "activities:Beach" -> [d EXCEPT !.cur.Activities = "Beach"]
                  [] t = "activities:[Beach,Fort]" -> [d EXCEPT !.typeErr = TRUE]
                  [] t = "expenses:" -> [d EXCEPT !.st = "expKey"]
                  [] t = RBrace ->
                       [d EXCEPT !.st = "days", !.plan.Days = Append(d.plan.Days, d.cur)]
                  [] OTHER -> [d EXCEPT !.st = "err"]
           [] d.st = "expKey" ->
                IF t = LBrace THEN [d EXCEPT !.st = "exp", !.cur.Expenses = {}]
                ELSE [d EXCEPT !.st = "err"]
           [] d.st = "exp" ->
                CASE t = "food=500" -> [d EXCEPT !.cur.Expenses = @ \cup {"food=500"}]
                  [] t = RBrace -> [d EXCEPT !.st = "day"]
                  [] OTHER -> [d EXCEPT !.st = "err"]
           [] d.st = "end" -> [d EXCEPT !.st = "err"]
           [] OTHER -> d

RECURSIVE DecodeFrom(_, _, _)
DecodeFrom(s, i, d) ==
    IF i > Len(s) THEN d ELSE DecodeFrom(s, i + 1, DecodeStep(d, s[i]))

\* a decoder that reports no error for a value of the wrong JSON type
UnmarshalIgnoringTypes(s) ==
    LET d == DecodeFrom(s, 1, DecodeStart)
    IN  [err |-> d.st # "end", plan |-> d.plan]

Unmarshal(s) ==
    LET d == DecodeFrom(s, 1, DecodeStart)
    IN  [err |-> (d.st # "end" \/ d.typeErr), plan |-> d.plan]

(***************************************************************************)
(* The replies of the upstream model.  An itinerary is rendered to the     *)
(* JSON text a model would write for it; defect names the one top-level    *)
(* field that is absent ("no_...") or of the wrong JSON type ("bad_..."),  *)
(* and a day's activities are free text or a list of text items.           *)
(***************************************************************************)
DaySpecs == [day : {1, 2}, activities : {"text", "list"}]

DaySeqs == UNION {[1..n -> DaySpecs] : n \in 0..MaxDays}

Defects == {"none", "no_source", "no_destination", "no_budget", "bad_source",
            "bad_budget"}

Itineraries ==
    [defect : Defects, days : DaySeqs]
        \cup [defect : {"no_days", "bad_days"}, days : {<<>>}]

RenderDay(d) ==
    <<LBrace, IF d.day = 1 THEN "day:1" ELSE "day:2",
      IF d.activities = "text" THEN "activities:Beach" ELSE "activities:[Beach,Fort]",
      "expenses:", LBrace, "food=500", RBrace, RBrace>>

RECURSIVE RenderDays(_)
RenderDays(ds) ==
    IF ds = <<>> THEN <<>> ELSE RenderDay(Head(ds)) \o RenderDays(Tail(ds))

Render(it) ==
    <<LBrace>>
      \o (CASE it.defect = "no_source" -> <<>>
            [] it.defect = "bad_source" -> <<"source:7">>
            [] OTHER -> <<"source:Delhi">>)
      \o (IF it.defect = "no_destination" THEN <<>> ELSE <<"destination:Goa">>)
      \o (CASE it.defect = "no_budget" -> <<>>
            [] it.defect = "bad_budget" -> <<"budget:text">>
            [] OTHER -> <<"budget:20000">>)
      \o (CASE it.defect = "no_days" -> <<>>
            [] it.defect = "bad_days" -> <<"days:", "text">>
            [] OTHER -> <<"days:", LBracket>> \o RenderDays(it.days) \o <<RBracket>>)
      \o <<RBrace>>

\* what the model puts around the JSON object: nothing, a code fence with
\* or without a language tag, prose before and after the fence
Wrappings ==
    { [pre |-> <<>>, post |-> <<>>],
      [pre |-> <<Fence, WS>>, post |-> <<WS, Fence>>],
      [pre |-> <<Fence, Tag, WS>>, post |-> <<WS, Fence>>],
      [pre |-> <<Prose, WS, Fence, Tag, WS>>, post |-> <<WS, Fence, WS, Prose>>],
      [pre |-> <<Prose, WS>>, post |-> <<WS, Prose>>] }

NoWrap == [pre |-> <<>>, post |-> <<>>]

RawTexts == UNION {[1..n -> {LBrace, RBrace, Prose}] : n \in 0..MaxRawLen}

NoItinerary == [defect |-> "none", days |-> <<>>]

Completions ==
    [form : {"itinerary"}, itin : Itineraries, wrap : Wrappings, raw : {<<>>}]
        \cup [form : {"raw"}, itin : {NoItinerary}, wrap : {NoWrap}, raw : RawTexts]

\* the text of a completion choice (choices[i].message.content)
Content(c) ==
    IF c.form = "itinerary" THEN c.wrap.pre \o Render(c.itin) \o c.wrap.post
    ELSE c.raw

ShortRaw == {c \in Completions : c.form = "raw" /\ Len(c.raw) <= 1}

ChoiceLists ==
    {<<>>} \cup {<<c>> : c \in Completions}
           \cup {<<c, d>> : c \in ShortRaw, d \in ShortRaw}

UpstreamStatuses == {StatusOK, 429, StatusInternalServerError}

\* what the provider does with one call: the transport fails before any
\* response ("transport": no status), the status line arrives but the body
\* cannot be read ("readError"), or it answers with a status and an envelope
UpstreamOutcomes ==
    [kind : {"transport"}, status : {0}, envelopeOK : {FALSE},
     apiError : {FALSE}, choices : {<<>>}]
      \cup [kind : {"readError"}, status : UpstreamStatuses, envelopeOK : {FALSE},
            apiError : {FALSE}, choices : {<<>>}]
      \cup [kind : {"http"}, status : UpstreamStatuses \ {StatusOK},
            envelopeOK : BOOLEAN, apiError : BOOLEAN, choices : {<<>>}]
      \cup [kind : {"http"}, status : {StatusOK}, envelopeOK : {FALSE},
            apiError : {FALSE}, choices : {<<>>}]
      \cup [kind : {"http"}, status : {StatusOK}, envelopeOK : {TRUE},
            apiError : {TRUE}, choices : {<<>>} \cup {<<c>> : c \in ShortRaw}]
      \cup [kind : {"http"}, status : {StatusOK}, envelopeOK : {TRUE},
            apiError : {FALSE}, choices : ChoiceLists]

NoUpstream == [kind |-> "none", status |-> 0, envelopeOK |-> FALSE,
               apiError |-> FALSE, choices |-> <<>>]

(***************************************************************************)
(* callOpenRouter, from the provider's outcome to (content, error): the    *)
(* checks in the order of the code.                                        *)
(***************************************************************************)
\* a status check that lets every status below 500 pass
NonOKStatusServerErrorsOnly(o) == o.status >= StatusInternalServerError

NonOKStatus(o) == o.status # StatusOK

callOpenRouter(o) ==
    CASE o.kind = "transport" ->
           [err |-> TRUE, content |-> <<>>,
            text |-> <<"failed to send request to OpenRouter: ", "transport error">>]
      [] o.kind = "readError" ->
           [err |-> TRUE, content |-> <<>>,
            text |-> <<"failed to read response body: ", "read error">>]
      [] NonOKStatus(o) ->
           [err |-> TRUE, content |-> <<>>,
            text |-> <<"received non-200 status code (", StatusText(o.status), "): ",
                       "upstream body">>]
      [] ~o.envelopeOK ->
           [err |-> TRUE, content |-> <<>>,
            text |-> <<"failed to unmarshal OpenRouter response: ", "json error">>]
      [] o.apiError ->
           [err |-> TRUE, content |-> <<>>,
            text |-> <<"OpenRouter API error: ", "upstream message">>]
      [] Len(o.choices) = 0 \/ Content(o.choices[1]) = <<>> ->
           [err |-> TRUE, content |-> <<>>,
            text |-> <<"received an empty response from AI">>]
      [] OTHER ->
           [err |-> FALSE, content |-> Content(o.choices[1]), text |-> <<>>]

(***************************************************************************)
(* The response writer.                                                    *)
(***************************************************************************)
NoCORS == [origin |-> "", methods |-> "", headers |-> ""]

NoResponse == [status |-> 0, contentType |-> "", cors |-> NoCORS, kind |-> "none",
               text |-> <<>>, plan |-> TravelPlanResponse, frames |-> <<>>]

enableCORS(w) ==
    [w EXCEPT !.cors = [origin |-> "*", methods |-> "POST, OPTIONS",
                        headers |-> "Content-Type, Authorization"]]

\* http.Error: a plain-text body under the given status
HttpError(w, text, code) ==
    [w EXCEPT !.status = code, !.contentType = "text/plain; charset=utf-8",
              !.kind = "text", !.text = text]

\* the answer of the default mux to a path no handler is registered for
NotFound(w) == HttpError(w, <<"404 page not found">>, StatusNotFound)

(***************************************************************************)
(* The second half of handleRoute: the reply is cut from its first '{' to  *)
(* its last '}', decoded and sent.                                         *)
(***************************************************************************)
\* the test that accepts an inverted pair of braces
NoJSONObjectUnordered(startIndex, endIndex) == startIndex = -1 \/ endIndex = -1

NoJSONObject(startIndex, endIndex) ==
    startIndex = -1 \/ endIndex = -1 \/ endIndex < startIndex

CouldNotBeUnderstood ==
    <<"AI returned a response that could not be understood as a travel plan.">>

InvalidFormat == <<"AI returned an invalid format. Please try again.">>

\* a parse failure that echoes the raw reply to the caller
ParseErrorBodyWithRaw(content) == InvalidFormat \o content

\* the body sent when the slice does not decode: the fixed message; the raw
\* reply goes to the log only
ParseErrorBody(content) == InvalidFormat

SendPlan(w, content) ==
    LET startIndex == Index(content, LBrace)
        endIndex == LastIndex(content, RBrace)
    IN  IF NoJSONObject(startIndex, endIndex)
        THEN [resp |-> HttpError(w, CouldNotBeUnderstood, StatusInternalServerError),
              cleaned |-> <<>>, logged |-> <<content>>]
        ELSE LET cleaned == SubSeq(content, startIndex, endIndex)
                 u == Unmarshal(cleaned)
             IN  IF u.err
                 THEN [resp |-> HttpError(w, ParseErrorBody(content),
                                          StatusInternalServerError),
                       cleaned |-> cleaned, logged |-> <<content>>]
                 ELSE [resp |-> [w EXCEPT !.status = StatusOK,
                                          !.contentType = "application/json",
                                          !.kind = "plan", !.plan = u.plan],
                       cleaned |-> cleaned, logged |-> <<>>]

(***************************************************************************)
(* Inbound requests.  A body is a JSON text or not; its budget is a JSON   *)
(* number or a JSON string; an absent field and an empty one decode alike. *)
(***************************************************************************)
Route == "/api/route"
RouteStream == "/api/route-stream"
Health == "/health"

Paths == {Route, RouteStream, Health}

Methods == {"POST", "GET", "OPTIONS"}

Bodies ==
    [json : {TRUE}, source : {"", "Delhi"}, destination : {"", "Goa"},
     budgetKind : {"number"}, budget : {-1, 0, 20000}]
      \cup [json : {TRUE}, source : {"", "Delhi"}, destination : {"", "Goa"},
            budgetKind : {"string"}, budget : {0}]
      \cup [json : {FALSE}, source : {""}, destination : {""},
            budgetKind : {"number"}, budget : {0}]

Requests == [method : Methods, path : Paths, body : Bodies]

NoRequest == [method |-> "", path |-> "",
              body |-> [json |-> FALSE, source |-> "", destination |-> "",
                        budgetKind |-> "number", budget |-> 0]]

\* json.NewDecoder(r.Body).Decode(&reqData)
DecodeRequest(b) ==
    IF ~b.json \/ b.budgetKind # "number"
    THEN [err |-> TRUE, data |-> TravelPlanRequest]
    ELSE [err |-> FALSE,
          data |-> [Source |-> b.source, Destination |-> b.destination,
                    Budget |-> b.budget]]

\* the request callOpenRouter sends: the model, the system message and the
\* prompt, which embeds source, destination and budget
OpenRouterRequest(d) ==
    [model |-> "gpt-4o-mini", system |-> "You are a professional travel planner AI.",
     prompt |-> d]

NoCall == [model |-> "", system |-> "", prompt |-> TravelPlanRequest]

(***************************************************************************)
(* The state machine of one request.                                       *)
(***************************************************************************)
\* const reply = ref(null)
NoReply == [present |-> FALSE, data |-> TravelPlanResponse]

\* the page before anything is submitted, its map in place
PageLoaded ==
    /\ fpc = "idle"
    /\ loading = FALSE
    /\ error = ""
    /\ reply = NoReply
    /\ geo = "none"
    /\ res = NoResponse

ServerStarted ==
    /\ pc = "idle"
    /\ req = NoRequest
    /\ reqData = TravelPlanRequest
    /\ call = NoCall
    /\ upstreamCalls = 0
    /\ upstream = NoUpstream
    /\ upstreamStream = <<>>
    /\ aiResponseContent = <<>>
    /\ cleanedJSON = <<>>
    /\ resp = NoResponse
    /\ logged = <<>>

\* the server alone, asked by any client; the page stays as loaded
Init == ServerStarted /\ PageLoaded

\* main registers /api/route alone: the default mux answers every other
\* path itself.  lines are the 'data:' lines the provider would stream for
\* this request; nothing asks for them.
ServeNotFound(r, lines) ==
    /\ pc = "idle"
    /\ r.path # Route
    /\ r.path = RouteStream \/ lines = <<>>
    /\ req' = r
    /\ upstreamStream' = lines
    /\ resp' = NotFound(NoResponse)
    /\ pc' = "done"
    /\ UNCHANGED <<reqData, call, upstreamCalls, upstream, aiResponseContent,
                   cleanedJSON, logged>>

\* a client that sends the request a second time
IssueCallTwice(n) == n + 2

\* callOpenRouter sends the request once (one http.DefaultClient.Do, no loop)
IssueCall(n) == n + 1

\* handleRoute up to the call of the provider
HandleRoute(r) ==
    /\ pc = "idle"
    /\ r.path = Route
    /\ req' = r
    /\ LET w == enableCORS(NoResponse)
           d == DecodeRequest(r.body)
       IN  IF r.method = "OPTIONS"
           THEN /\ resp' = [w EXCEPT !.status = StatusOK]
                /\ pc' = "done"
                /\ UNCHANGED <<reqData, call, upstreamCalls>>
           ELSE IF r.method # "POST"
           THEN /\ resp' = HttpError(w, <<"Invalid request method. Use POST.">>,
                                     StatusMethodNotAllowed)
                /\ pc' = "done"
                /\ UNCHANGED <<reqData, call, upstreamCalls>>
           ELSE IF d.err
           THEN /\ resp' = HttpError(w, <<"Invalid request body: ", "json error">>,
                                     StatusBadRequest)
                /\ pc' = "done"
                /\ UNCHANGED <<reqData, call, upstreamCalls>>
           ELSE /\ reqData' = d.data
                /\ call' = OpenRouterRequest(d.data)
                /\ upstreamCalls' = IssueCall(upstreamCalls)
                /\ resp' = w
                /\ pc' = "awaiting"
    /\ UNCHANGED <<upstream, upstreamStream, aiResponseContent, cleanedJSON, logged>>

\* the provider's outcome arrives: the rest of callOpenRouter, then the
\* rest of handleRoute
OpenRouterReturns(o) ==
    /\ pc = "awaiting"
    /\ upstream' = o
    /\ LET r == callOpenRouter(o)
       IN  IF r.err
           THEN /\ resp' = HttpError(resp, <<"Failed to get response from AI: ">> \o r.text,
                                     StatusInternalServerError)
                /\ UNCHANGED <<aiResponseContent, cleanedJSON, logged>>
           ELSE LET f == SendPlan(resp, r.content)
                IN  /\ aiResponseContent' = r.content
                    /\ resp' = f.resp
                    /\ cleanedJSON' = f.cleaned
                    /\ logged' = f.logged
    /\ pc' = "done"
    /\ UNCHANGED <<req, reqData, call, upstreamCalls, upstreamStream>>

\* the provider accepts the call and never answers.  http.DefaultClient has
\* no Timeout and the request carries no deadline, so nothing ends the wait:
\* no step of this request is enabled in "stalled".
ProviderStalls ==
    /\ pc = "awaiting"
    /\ pc' = "stalled"
    /\ UNCHANGED <<req, reqData, call, upstreamCalls, upstream, upstreamStream,
                   aiResponseContent, cleanedJSON, resp, logged>>

\* the response is out; the server takes the next request
NextRequest ==
    /\ pc = "done"
    /\ pc' = "idle"
    /\ req' = NoRequest
    /\ reqData' = TravelPlanRequest
    /\ call' = NoCall
    /\ upstreamCalls' = 0
    /\ upstream' = NoUpstream
    /\ upstreamStream' = <<>>
    /\ aiResponseContent' = <<>>
    /\ cleanedJSON' = <<>>
    /\ resp' = NoResponse
    /\ logged' = <<>>

StreamLines == {[i \in 1..n |-> i] : n \in 0..MaxLines}

Next ==
    \/ \E r \in Requests, lines \in StreamLines :
          ServeNotFound(r, lines) /\ UNCHANGED ui
    \/ \E r \in Requests : HandleRoute(r) /\ UNCHANGED ui
    \/ \E o \in UpstreamOutcomes : OpenRouterReturns(o) /\ UNCHANGED ui
    \/ ProviderStalls /\ UNCHANGED ui
    \/ NextRequest /\ UNCHANGED ui

Spec == Init /\ [][Next]_vars

(***************************************************************************)
(* The page that consumes the JSON contract: getRoute of App.vue, with the *)
(* server above as the far end of its fetch.                               *)
(***************************************************************************)
\* what the form lets through: source, destination and budget are required
\* inputs and the budget has min="1"
FormBodies ==
    {b \in Bodies : b.json /\ b.budgetKind = "number" /\ b.source # ""
                           /\ b.destination # "" /\ b.budget >= 1}

\* fetch("http://localhost:8080/api/route", {method: "POST", body: ...})
FormRequest(b) == [method |-> "POST", path |-> Route, body |-> b]

\* res.ok
ResOK(r) == r.status >= 200 /\ r.status <= 299

\* the message thrown for a response that is not ok: the error member of
\* its JSON body, "Server error" when the body is no JSON, the status
\* otherwise
ErrorMessage(r) ==
    IF r.kind = "text" THEN "Server error" ELSE "Server responded with status"

\* a check that takes every ok response for a plan
HasDaysAlways(data) == TRUE

\* data.days is there and not empty
HasDays(data) == Len(data.Days) > 0

GeocodeResults == {"ok", "notFound", "networkError"}

\* the catch and finally blocks of getRoute
CatchFinally(message) ==
    /\ error' = message
    /\ loading' = FALSE
    /\ fpc' = "idle"

\* the page has mounted; the map may have failed to initialise
PageMounted ==
    /\ fpc = "idle"
    /\ loading = FALSE
    /\ error \in {"", "Failed to initialize map. Please refresh the page."}
    /\ reply = NoReply
    /\ geo = "none"
    /\ res = NoResponse

InitUI == ServerStarted /\ PageMounted

\* the form is submitted (the button is disabled while loading)
Submit ==
    /\ fpc = "idle"
    /\ ~loading
    /\ loading' = TRUE
    /\ error' = ""
    /\ reply' = NoReply
    /\ geo' = "none"
    /\ res' = NoResponse
    /\ fpc' = "geocoding"
    /\ UNCHANGED <<pc, req, reqData, call, upstreamCalls, upstream, upstreamStream,
                   aiResponseContent, cleanedJSON, resp, logged>>

\* both getCoords calls settle; on success the route is drawn and the fetch
\* of the plan is started
GeocodeSettles(g) ==
    /\ fpc = "geocoding"
    /\ geo' = g
    /\ IF g = "ok"
       THEN fpc' = "sending" /\ UNCHANGED <<loading, error>>
       ELSE CatchFinally(IF g = "notFound" THEN "Location not found"
                         ELSE "Failed to fetch")
    /\ UNCHANGED <<reply, res>>
    /\ UNCHANGED <<pc, req, reqData, call, upstreamCalls, upstream, upstreamStream,
                   aiResponseContent, cleanedJSON, resp, logged>>

\* the request of the fetch reaches handleRoute
FetchArrives(b) ==
    /\ fpc = "sending"
    /\ HandleRoute(FormRequest(b))
    /\ fpc' = "waiting"
    /\ UNCHANGED <<loading, error, reply, geo, res>>

\* the server is rid of a request whose connection is gone
Abandoned ==
    /\ pc' = "idle"
    /\ req' = NoRequest
    /\ reqData' = TravelPlanRequest
    /\ call' = NoCall
    /\ upstreamCalls' = 0
    /\ upstream' = NoUpstream
    /\ upstreamStream' = <<>>
    /\ aiResponseContent' = <<>>
    /\ cleanedJSON' = <<>>
    /\ resp' = NoResponse
    /\ logged' = <<>>

\* the fetch rejects: the network fails before a response is read.  What
\* the server still does for a request whose connection is gone reaches
\* nobody and is not followed: the server is free for the next request.
FetchFails ==
    /\ fpc \in {"sending", "waiting"}
    /\ CatchFinally("Failed to fetch")
    /\ UNCHANGED <<reply, geo, res>>
    /\ IF fpc = "waiting"
       THEN Abandoned
       ELSE UNCHANGED <<pc, req, reqData, call, upstreamCalls, upstream,
                        upstreamStream, aiResponseContent, cleanedJSON, resp, logged>>

\* the response of the server is read, which ends the request there
FetchSettles ==
    /\ fpc = "waiting"
    /\ NextRequest
    /\ res' = resp
    /\ UNCHANGED geo
    /\ IF ~ResOK(resp)
       THEN CatchFinally(ErrorMessage(resp)) /\ UNCHANGED reply
       ELSE IF ~HasDays(resp.plan)
       THEN CatchFinally("No travel plan was generated") /\ UNCHANGED reply
       ELSE /\ reply' = [present |-> TRUE, data |-> resp.plan]
            /\ loading' = FALSE
            /\ fpc' = "idle"
            /\ UNCHANGED error

\* the close button of the error banner
Dismiss ==
    /\ error # ""
    /\ error' = ""
    /\ UNCHANGED <<fpc, loading, reply, geo, res>>
    /\ UNCHANGED <<pc, req, reqData, call, upstreamCalls, upstream, upstreamStream,
                   aiResponseContent, cleanedJSON, resp, logged>>

\* the steps by which the requests of a submission settle, and the server's
\* own steps
Settle ==
    \/ \E g \in GeocodeResults : GeocodeSettles(g)
    \/ \E b \in FormBodies : FetchArrives(b)
    \/ \E o \in UpstreamOutcomes : OpenRouterReturns(o) /\ UNCHANGED ui
    \/ FetchSettles
    \/ FetchFails

NextUI == Submit \/ Dismiss \/ Settle

\* the page with the server behind it; the requests of a submission settle
SpecUI == InitUI /\ [][NextUI]_vars /\ WF_vars(Settle)

(***************************************************************************)
(* Vocabulary of the properties.                                           *)
(***************************************************************************)
\* the body fails the validation the contract asks for
InvalidBody(b) ==
    \/ ~b.json
    \/ b.budgetKind # "number"
    \/ b.source = ""
    \/ b.destination = ""
    \/ b.budget <= 0

\* a POST to the buffered endpoint has been taken in
Posted == pc # "idle" /\ req.path = Route /\ req.method = "POST"

\* the provider answered 200 with a readable envelope that carries choices
Completed ==
    /\ pc = "done"
    /\ upstream.kind = "http"
    /\ upstream.status = StatusOK
    /\ upstream.envelopeOK
    /\ ~upstream.apiError
    /\ Len(upstream.choices) >= 1

\* the provider answered 200 with one choice whose text is exactly the JSON
\* object of an itinerary that has all its fields, each of a type of the
\* data model
WellFormedCompletion ==
    /\ Completed
    /\ ~InvalidBody(req.body)
    /\ Len(upstream.choices) = 1
    /\ upstream.choices[1].form = "itinerary"
    /\ upstream.choices[1].itin.defect = "none"
    /\ upstream.choices[1].wrap = NoWrap

Range(f) == {f[i] : i \in DOMAIN f}

\* every '}' of the text lies before every '{' of it: there is no '{', or
\* no '}', or the last '}' precedes the first '{'
NoBracePair(c) ==
    \A i, j \in 1..Len(c) : (c[i] = LBrace /\ c[j] = RBrace) => j < i

\* the activities member as json.Encoder writes the decoded day
EncodedActivities(d) ==
    IF d.Activities = "Beach" THEN "activities:Beach" ELSE "activities:"

\* C1 (as claimed): a POST to /api/route whose body has an empty source, an
\* empty destination, a budget <= 0 or a non-numeric budget is answered 400
\* and causes no call of the upstream provider.
C1_InvalidRequestNeverReachesUpstream ==
    (Posted /\ InvalidBody(req.body)) =>
        (upstreamCalls = 0 /\ (pc = "done" => resp.status = StatusBadRequest))

\* C2 (as claimed): a valid buffered request whose upstream answers 200 with
\* one choice holding a well-formed itinerary object is answered 200 with a
\* plan whose days have the length and the order of the payload's days.
C2_DaysLengthAndOrderKept ==
    WellFormedCompletion =>
        LET it == upstream.choices[1].itin
        IN  /\ resp.status = StatusOK
            /\ resp.kind = "plan"
            /\ Len(resp.plan.Days) = Len(it.days)
            /\ \A i \in 1..Len(it.days) : resp.plan.Days[i].Day = it.days[i].day

\* C3: a completion text with no '{', with no '}', or whose last '}' comes
\* before its first '{' is answered 500 and never 200 with a plan; unless
\* the text is empty (rejected by callOpenRouter already) it is the
\* brace search that rejects it, before anything is sliced or decoded.
C3_NoBracePairRejected ==
    (Completed /\ NoBracePair(Content(upstream.choices[1]))) =>
        /\ resp.status = StatusInternalServerError
        /\ resp.kind = "text"
        /\ resp.plan = TravelPlanResponse
        /\ Content(upstream.choices[1]) # <<>> =>
              (resp.text = CouldNotBeUnderstood /\ cleanedJSON = <<>>)

\* C3 witness: the reply "} prose {" has been answered 500.
C3_Witness ==
    /\ Completed
    /\ aiResponseContent = <<RBrace, Prose, LBrace>>
    /\ resp.status = StatusInternalServerError

\* C4: for an itinerary object J wrapped in a code fence with or without a
\* language tag, with or without brace-free prose around it, the slice
\* decoded is exactly J (first '{' to last '}' inclusive) and the response
\* is the one the bare J gets.
C4_FencedRoundTrip ==
    (Completed /\ upstream.choices[1].form = "itinerary") =>
        LET J == Render(upstream.choices[1].itin)
        IN  /\ cleanedJSON = J
            /\ resp = SendPlan(enableCORS(NoResponse), J).resp

\* C4 witness: a well-formed two-day itinerary inside prose and a tagged
\* fence has been answered 200.
C4_Witness ==
    /\ Completed
    /\ upstream.choices[1].form = "itinerary"
    /\ upstream.choices[1].itin.defect = "none"
    /\ Len(upstream.choices[1].itin.days) = 2
    /\ upstream.choices[1].wrap.pre = <<Prose, WS, Fence, Tag, WS>>
    /\ resp.status = StatusOK
    /\ Len(resp.plan.Days) = 2

\* the upstream call of a buffered request ended with a non-200 status, with
\* a 200 whose envelope has no choices, or with a transport error (before
\* the response, or while its body is read)
UpstreamFailed ==
    /\ pc = "done"
    /\ \/ upstream.kind \in {"transport", "readError"}
       \/ upstream.kind = "http" /\ upstream.status # StatusOK
       \/ /\ upstream.kind = "http"
          /\ upstream.status = StatusOK
          /\ upstream.envelopeOK
          /\ ~upstream.apiError
          /\ Len(upstream.choices) = 0

\* C5 (as claimed): in each of the three cases the endpoint answers 500 and
\* the error of the response contains the upstream status (stated for the
\* requests that pass the contract's validation).
C5_ErrorAlwaysCarriesUpstreamStatus ==
    (UpstreamFailed /\ ~InvalidBody(req.body)) =>
        /\ resp.status = StatusInternalServerError
        /\ upstream.kind = "http"
        /\ StatusText(upstream.status) \in Range(resp.text)

\* C5 (amended): in each of the three cases the endpoint answers 500 with an
\* error text and no plan; the text contains the upstream status when the
\* provider's response, status and body, was received with a non-success
\* status.
C5_UpstreamFailureIs500 ==
    UpstreamFailed =>
        /\ resp.status = StatusInternalServerError
        /\ resp.kind = "text"
        /\ resp.plan = TravelPlanResponse
        /\ (upstream.kind = "http" /\ upstream.status # StatusOK) =>
              StatusText(upstream.status) \in Range(resp.text)

\* C5 witness: an upstream 429 has been answered 500 with "429" in the text.
C5_Witness ==
    /\ UpstreamFailed
    /\ upstream.kind = "http"
    /\ upstream.status = 429
    /\ resp.status = StatusInternalServerError
    /\ "429" \in Range(resp.text)

\* C6 (as claimed): every failure response of the buffered endpoint has
\* status 400 or 500 and a JSON body of the shape {error: string}.
C6_FailuresAreStructuredJSON ==
    (pc = "done" /\ req.path = Route /\ resp.status # StatusOK) =>
        /\ resp.status \in {StatusBadRequest, StatusInternalServerError}
        /\ resp.contentType = "application/json"
        /\ resp.kind = "error"

\* C7 (as claimed): a 200 with a plan comes only from a payload that has
\* all four top-level fields, each of the right type (stated for the
\* requests that pass the contract's validation).
C7_PlanOnlyFromCompletePayload ==
    (pc = "done" /\ resp.status = StatusOK /\ resp.kind = "plan"
                 /\ ~InvalidBody(req.body)) =>
        /\ Completed
        /\ upstream.choices[1].form = "itinerary"
        /\ upstream.choices[1].itin.defect = "none"

\* C8 (as claimed): for an otherwise well-formed payload the endpoint
\* answers 200 whether a day's activities are a text or a list of texts,
\* and sends each day's activities in the form it received.
C8_BothActivityFormsAccepted ==
    WellFormedCompletion =>
        LET it == upstream.choices[1].itin
        IN  /\ resp.status = StatusOK
            /\ \A i \in 1..Len(it.days) :
                  /\ i <= Len(resp.plan.Days)
                  /\ EncodedActivities(resp.plan.Days[i]) = RenderDay(it.days[i])[3]

\* C9 (as claimed): a valid POST to /api/route-stream whose upstream emits n
\* 'data:' lines has been answered, once it is closed, with exactly those n
\* frames, in the upstream order.
C9_StreamRelaysEveryLine ==
    (pc = "done" /\ req.path = RouteStream /\ req.method = "POST"
                 /\ ~InvalidBody(req.body)) =>
        resp.frames = upstreamStream

\* C10 (as claimed): a streaming request that fails validation while still
\* connecting gets a structured error with its status code and no frame,
\* and a response that carries event-stream headers never carries a
\* structured error body.
C10_StreamPhases ==
    (pc = "done" /\ req.path = RouteStream /\ req.method = "POST") =>
        /\ InvalidBody(req.body) =>
              /\ resp.status = StatusBadRequest
              /\ resp.kind = "error"
              /\ resp.frames = <<>>
        /\ resp.contentType = "text/event-stream" => resp.kind # "error"

\* C11: a request causes at most one call of the provider, and a failed
\* call is not repeated: its error is the 500 of that same request.
C11_SingleAttempt ==
    /\ upstreamCalls <= 1
    /\ (pc = "done" /\ upstream.kind # "none" /\ callOpenRouter(upstream).err) =>
          /\ upstreamCalls = 1
          /\ resp.status = StatusInternalServerError
          /\ resp.text = <<"Failed to get response from AI: ">>
                            \o callOpenRouter(upstream).text

\* C11 witness: a call that failed in the transport has been answered 500
\* after one attempt.
C11_Witness ==
    /\ pc = "done"
    /\ upstream.kind = "transport"
    /\ upstreamCalls = 1
    /\ resp.status = StatusInternalServerError

\* C12 (as claimed): a buffered request that has not been answered yet is
\* never stuck: even when the provider never replies a step remains (a
\* timeout) that leads it to its response.
C12_RequestNeverWaitsForever ==
    (Posted /\ pc # "done") => ENABLED Next

\* C13 (as claimed): every response of /api/route carries the CORS headers
\* origin '*', methods 'GET, POST, OPTIONS', headers 'Content-Type,
\* Authorization'; an OPTIONS request is answered 200 with no body and no
\* call of the provider.
C13_CORSOnEveryResponse ==
    (pc = "done" /\ req.path = Route) =>
        /\ resp.cors = [origin |-> "*", methods |-> "GET, POST, OPTIONS",
                        headers |-> "Content-Type, Authorization"]
        /\ req.method = "OPTIONS" =>
              (resp.status = StatusOK /\ resp.kind = "none" /\ upstreamCalls = 0)

\* the model replied with a text and the endpoint rejected it
Rejected ==
    /\ Completed
    /\ aiResponseContent # <<>>
    /\ resp.status = StatusInternalServerError

\* C14 (as claimed): the response to a rejected reply is the same for every
\* rejected reply: it is the response that the reply "prose" gets.
C14_OneResponseForEveryRejectedReply ==
    Rejected => resp = SendPlan(enableCORS(NoResponse), <<Prose>>).resp

\* C14 (amended): the response to a rejected reply depends only on the
\* stage that rejected it: a reply without an ordered brace pair gets the
\* response that "prose" gets, a reply whose slice does not decode gets the
\* response that "{ prose }" gets; no token of the reply is in the body,
\* and the reply is logged.
C14_ResponseIndependentOfRawReply ==
    Rejected =>
        /\ resp = SendPlan(enableCORS(NoResponse),
                           IF NoBracePair(aiResponseContent)
                           THEN <<Prose>> ELSE <<LBrace, Prose, RBrace>>).resp
        /\ Range(resp.text) \cap Range(aiResponseContent) = {}
        /\ logged = <<aiResponseContent>>

\* C14 witness: a reply whose slice does not decode has been rejected.
C14_Witness ==
    /\ Rejected
    /\ ~NoBracePair(aiResponseContent)
    /\ aiResponseContent # <<LBrace, Prose, RBrace>>
    /\ resp.text = InvalidFormat

\* the last submission geocoded both places and got an ok response whose
\* days are not empty
GotPlan == geo = "ok" /\ ResOK(res) /\ Len(res.plan.Days) > 0

\* C15, at every state: with no submission in flight loading is false;
\* reply and error are never both set; reply is set only after a
\* submission that got an ok response with days, and is that response.
C15_Safe ==
    /\ fpc = "idle" => ~loading
    /\ ~(reply.present /\ error # "")
    /\ reply.present => (fpc = "idle" /\ GotPlan /\ reply.data = res.plan)

\* C15, at every step that ends a submission: every outcome other than an
\* ok response with days sets error and leaves reply null.
C15_Ends ==
    (fpc # "idle" /\ fpc' = "idle"
       /\ ~(geo' = "ok" /\ ResOK(res') /\ Len(res'.plan.Days) > 0)) =>
        (error' # "" /\ ~reply'.present)

\* C15: the consumer state machine of getRoute: the two properties above,
\* and every submission whose requests settle resets loading to false.
C15_Consumer == []C15_Safe /\ [][C15_Ends]_vars /\ (loading ~> ~loading)

\* C15 witness: a submission has ended with a two-day plan shown.
C15_Witness ==
    /\ fpc = "idle"
    /\ ~loading
    /\ reply.present
    /\ Len(reply.data.Days) = 2
    /\ error = ""

====
